---- MODULE Spec2Model ----
(***************************************************************************)
(* The request/response bridge of the Blender add-on:                      *)
(*   blender_addon/server/http_server.py   (listener, queue, dispatcher)   *)
(*   blender_addon/operators/server_operator.py   (modal timer operator)   *)
(*                                                                         *)
(* Three specifications share the same steps.                              *)
(*   Spec       the classes' operations called from two execution          *)
(*              contexts: one runs poll() (and with it do_POST), the       *)
(*              other runs process_queue(), in any interleaving.           *)
(*   SpecModal  the add-on as it is wired: modal() runs poll() and then    *)
(*              process_queue() on the host's single main thread.          *)
(*   SpecAddon  SpecModal from before the first start, with the start and  *)
(*              stop operators, unregister() and start() on the main       *)
(*              thread between TIMER events.                               *)
(***************************************************************************)
EXTENDS Integers, Sequences, FiniteSets, TLC

\* Number of POST requests a behaviour accepts (a bound of the model).
MaxRequests == 2

\* Number of BlenderHTTPServer instances a behaviour creates (a bound of the
\* model).
MaxStarts == 2

\* ------------------------------------------------------------------ inputs

\* The body of a POST, by how do_POST's json.loads / item assignment treat it:
\* not JSON at all, JSON that is no object (array, string, number, null), or
\* a JSON object.
Bodies == {"badjson", "nonobject", "object"}

\* The value of the object's "action" field:
\*   "ping"            a registered name, its handler returns a JSON value
\*   "raw"             a registered name, its handler returns a value
\*                     json.dumps cannot serialize
\*   "boom"            a registered name, its handler raises Exception
\*   "does_not_exist"  a string that is no key of the handler registry
\*   "<absent>"        the object has no "action" key (request.get -> None)
\*   "<list>"          a JSON array or object: an unhashable Python value
ActionValues == {"ping", "raw", "boom", "does_not_exist", "<absent>", "<list>"}

\* get_handler_registry(): the keys of the combined handler table.
HandlerRegistry == {"ping", "raw", "boom"}

\* dict.get(action) raises TypeError for an unhashable key.
Unhashable(action) == action = "<list>"

\* What handler(params) does for a registered action.
HandlerRaises(action) == action = "boom"
HandlerResult(action) == <<"result of ", action>>
HandlerMessage(action) == <<"error in ", action>>

\* str(action) inside the f-string of the unknown-action message.
PyStr(action) == IF action = "<absent>" THEN "None" ELSE action

\* json.dumps(data) succeeds unless data holds a non-serializable value.
Serializable(data) ==
    ~(/\ "success" \in DOMAIN data
      /\ data.success
      /\ data.payload = HandlerResult("raw"))

\* Response dictionaries: {"success": True, "result": v} and
\* {"success": False, "error": m}; payload is the result or the message.
Success(v) == [success |-> TRUE, payload |-> v]
Failure(m) == [success |-> FALSE, payload |-> m]

TimeoutResponse == Failure(<<"Request timeout">>)
InvalidJson == Failure(<<"Invalid JSON: ", "JSONDecodeError">>)
NotSubscriptable == <<"TypeError: item assignment">>
NotSerializable == <<"TypeError: not JSON serializable">>
BrokenPipe == <<"OSError: broken pipe">>

NoRequest == [n |-> 0, body |-> "none", action |-> "none"]
NoData == Failure(<<>>)

\* The keys of a dictionary without one key.
DictWithout(d, k) == [i \in DOMAIN d \ {k} |-> d[i]]
DictWith(d, k, v) == [i \in DOMAIN d \cup {k} |-> IF i = k THEN v ELSE d[i]]

\* ------------------------------------------------------------------- state

VARIABLES
    request_queue,    \* BlenderHTTPServer.request_queue: Seq of envelopes
    response_dict,    \* BlenderHTTPServer.response_dict: request id -> response
    response_events,  \* NonBlockingHTTPServer.response_events: id -> is_set
    running,          \* BlenderHTTPServer.running
    reqCount,         \* POST requests accepted so far (source of request ids)
    lpc,              \* where do_POST stands
    cur,              \* the request do_POST is handling (or handled last)
    connBroken,       \* a write to cur's client raised OSError
    wire,             \* what do_POST wrote to the client for cur
    raisedOut,        \* do_POST ended by an exception leaving it
    waited,           \* how the last event.wait of do_POST returned
    took,             \* which branch of lines 79-85 do_POST took for cur
    dpc,              \* where process_queue stands
    dreq,             \* the envelope process_queue dequeued
    dispatchLog,      \* ids in the order process_queue dequeued them
    handlerLog,       \* handler invocations in order: the id, and did it raise
    resolveLog,       \* ids whose response was stored, in order
    foundLog,         \* how many envelopes each dequeue found in the queue
    escaped,          \* an exception left process_queue
    tpc,              \* where modal() stands in a TIMER event
    modalHandlers,    \* modal operators (each with its timer) registered
    server,           \* BlenderHTTPServer.server: "None" or "bound"
    global_server,    \* the module global _server: "None" or "instance"
    sockets,          \* listening sockets this process holds open
    instancesCreated, \* BlenderHTTPServer objects constructed so far
    lastOp,           \* what the last lifecycle operation did
    clock,            \* SpecIds: the reading time.time() returns now
    heap,             \* SpecIds: addresses of the request dicts alive
    event_ids,        \* SpecIds: the keys of response_events
    dict_ids,         \* SpecIds: the keys of response_dict
    queue_ids,        \* SpecIds: the _request_id of the envelopes queued
    request_id,       \* SpecIds: do_POST's request_id
    supplied_id,      \* SpecIds: the _request_id of the client's JSON
    ids_pc,           \* SpecIds: where the tick stands
    reused,           \* SpecIds: ids registered while they were outstanding
    name,             \* SpecAbbr: _get_abbreviation's name
    used,             \* SpecAbbr: the keys of _get_abbreviation's used
    index,            \* SpecAbbr: the i of the for loop
    count,            \* SpecAbbr: the count of the while loop
    abbr_pc,          \* SpecAbbr: where _get_abbreviation stands
    returned          \* SpecAbbr: what _get_abbreviation returned

listenerVars == <<reqCount, lpc, cur, connBroken, wire, raisedOut, waited,
                  took>>
dispatchVars == <<dpc, dreq, dispatchLog, handlerLog, resolveLog, foundLog,
                  escaped>>
sharedVars == <<request_queue, response_dict, response_events, running>>
modalVars == <<tpc, modalHandlers>>
lifeVars == <<server, global_server, sockets, instancesCreated, lastOp>>
vars == <<request_queue, response_dict, response_events, running,
          reqCount, lpc, cur, connBroken, wire, raisedOut, waited, took,
          dpc, dreq, dispatchLog, handlerLog, resolveLog, foundLog, escaped,
          tpc, modalHandlers,
          server, global_server, sockets, instancesCreated, lastOp,
          clock, heap, event_ids, dict_ids, queue_ids, request_id,
          supplied_id, ids_pc, reused,
          name, used, index, count, abbr_pc, returned>>

\* The variables of the specifications of request ids and of
\* _get_abbreviation; the others leave them alone.
idVars == <<clock, heap, event_ids, dict_ids, queue_ids, request_id,
            supplied_id, ids_pc, reused>>
abbrVars == <<name, used, index, count, abbr_pc, returned>>
otherVars == <<idVars, abbrVars>>

IdsUnused ==
    /\ clock = 0
    /\ heap = {}
    /\ event_ids = {}
    /\ dict_ids = {}
    /\ queue_ids = <<>>
    /\ request_id = <<>>
    /\ supplied_id = <<>>
    /\ ids_pc = "idle"
    /\ reused = {}

AbbrUnused ==
    /\ name = <<>>
    /\ used = {}
    /\ index = 0
    /\ count = 0
    /\ abbr_pc = "unused"
    /\ returned = <<>>

\* The fields of a BlenderHTTPServer as __init__ leaves them (lines 124-125),
\* and as a successful start() leaves them (lines 132-138).
Constructed == [running |-> FALSE, server |-> "None"]
Listening == [running |-> TRUE, server |-> "bound"]

\* What a lifecycle operation did: which one, what it returned, what it
\* reported to the user, whether it constructed a BlenderHTTPServer and the
\* fields of the instance it called start() on, after the call.
OpRecord(op, result, report, constructed, instance) ==
    [op |-> op, result |-> result, report |-> report,
     constructed |-> constructed, instance |-> instance]
NoOp == OpRecord("none", "none", "none", FALSE, Constructed)
Started == OpRecord("execute", "RUNNING_MODAL", "INFO", TRUE, Listening)

\* The state after BlenderHTTPServer(); start() and, for the add-on, after the
\* start operator's execute() returned RUNNING_MODAL.
Init ==
    /\ request_queue = <<>>
    /\ response_dict = <<>>
    /\ response_events = <<>>
    /\ running = TRUE
    /\ reqCount = 0
    /\ lpc = "idle"
    /\ cur = NoRequest
    /\ connBroken = FALSE
    /\ wire = <<>>
    /\ raisedOut = FALSE
    /\ waited = "none"
    /\ took = "none"
    /\ dpc = "idle"
    /\ dreq = 0
    /\ dispatchLog = <<>>
    /\ handlerLog = <<>>
    /\ resolveLog = <<>>
    /\ foundLog = <<>>
    /\ escaped = FALSE
    /\ tpc = "idle"
    /\ modalHandlers = 1
    /\ server = "bound"
    /\ global_server = "instance"
    /\ sockets = 1
    /\ instancesCreated = 1
    /\ lastOp = Started
    /\ IdsUnused
    /\ AbbrUnused

\* ------------------------------------------------- the Listener: do_POST

\* The envelope do_POST queues: the request dictionary with its _request_id.
Envelope(n, action) == [id |-> n, action |-> action]

\* What _send_json_response puts on the wire.
HeadPart(status) == [part |-> "head", status |-> status, data |-> NoData]
BodyPart(status, data) == [part |-> "body", status |-> status, data |-> data]

\* How many writes to the client's connection succeed before the client has
\* closed it and a write raises OSError.  do_POST makes at most three writes
\* (a status line with headers, then the except clause's headers and body),
\* so the last value stands for a client that stays connected.
WritesAccepted == {0, 1, 2, 3}
StaysConnected(good) == good = 3

\* _send_json_response(status, data), lines 103-109, on a connection that
\* accepts `good` more writes: the status line and header block are written
\* first (105-108), then json.dumps(data) is evaluated and the body written
\* (109).  `used` counts the writes that succeeded.
SendJson(status, data, good) ==
    IF good = 0
    THEN [ok |-> FALSE, wire |-> <<>>, used |-> 0, error |-> BrokenPipe]
    ELSE IF ~Serializable(data)
    THEN [ok |-> FALSE, wire |-> <<HeadPart(status)>>, used |-> 1,
          error |-> NotSerializable]
    ELSE IF good = 1
    THEN [ok |-> FALSE, wire |-> <<HeadPart(status)>>, used |-> 1,
          error |-> BrokenPipe]
    ELSE [ok |-> TRUE, wire |-> <<HeadPart(status), BodyPart(status, data)>>,
          used |-> 2, error |-> <<>>]

\* A response sent from an except clause (lines 92, 94): an exception that
\* _send_json_response raises there leaves do_POST.
RespondInExcept(status, data, good) ==
    LET sent == SendJson(status, data, good)
    IN  [wire |-> sent.wire, raised |-> ~sent.ok, caught |-> FALSE,
         broken |-> ~sent.ok /\ sent.error = BrokenPipe]

\* A response sent from the try block (lines 81, 83): an exception that
\* _send_json_response raises there is caught by `except Exception`
\* (line 93), which sends a 500 with the exception's text.
RespondInTry(status, data, good) ==
    LET first == SendJson(status, data, good)
        second == RespondInExcept(500, Failure(first.error), good - first.used)
    IN  IF first.ok
        THEN [wire |-> first.wire, raised |-> FALSE, caught |-> FALSE,
              broken |-> FALSE]
        ELSE [wire |-> first.wire \o second.wire, raised |-> second.raised,
              caught |-> TRUE,
              broken |-> first.error = BrokenPipe \/ second.broken]

\* do_POST without the `except json.JSONDecodeError` clause: a body that is
\* not JSON is answered by `except Exception`, with 500.
DoPostReceive_NoDecodeClause(body, action, good) ==
    /\ lpc = "idle"
    /\ running
    /\ reqCount < MaxRequests
    /\ reqCount' = reqCount + 1
    /\ cur' = [n |-> reqCount + 1, body |-> body, action |-> action]
    /\ waited' = "none"
    /\ took' = "none"
    /\ IF body = "object"
       THEN /\ response_events' = DictWith(response_events, reqCount + 1, FALSE)
            /\ request_queue' = Append(request_queue, Envelope(reqCount + 1, action))
            /\ lpc' = "wait"
            /\ wire' = <<>>
            /\ raisedOut' = FALSE
            /\ connBroken' = FALSE
       ELSE LET sent == IF body = "badjson"
                        THEN RespondInExcept(500, InvalidJson, good)
                        ELSE RespondInExcept(500, Failure(NotSubscriptable), good)
            IN  /\ wire' = sent.wire
                /\ raisedOut' = sent.raised
                /\ connBroken' = sent.broken
                /\ lpc' = "idle"
                /\ UNCHANGED <<request_queue, response_events>>
    /\ UNCHANGED <<response_dict, running>>

\* do_POST up to the wait, lines 60-73, or, for a body that is no JSON
\* object, all of do_POST: the except clause answers and do_POST is over.
\* poll() runs it only while the server is running.
DoPostReceive(body, action, good) ==
    /\ lpc = "idle"
    /\ running
    /\ reqCount < MaxRequests
    /\ reqCount' = reqCount + 1
    /\ cur' = [n |-> reqCount + 1, body |-> body, action |-> action]
    /\ waited' = "none"
    /\ took' = "none"
    /\ IF body = "object"
       THEN /\ response_events' = DictWith(response_events, reqCount + 1, FALSE)
            /\ request_queue' = Append(request_queue, Envelope(reqCount + 1, action))
            /\ lpc' = "wait"
            /\ wire' = <<>>
            /\ raisedOut' = FALSE
            /\ connBroken' = FALSE
       ELSE LET sent == IF body = "badjson"
                        \* json.loads raises JSONDecodeError: line 92
                        THEN RespondInExcept(400, InvalidJson, good)
                        \* request["_request_id"] = ... raises TypeError: line 94
                        ELSE RespondInExcept(500, Failure(NotSubscriptable), good)
            IN  /\ wire' = sent.wire
                /\ raisedOut' = sent.raised
                /\ connBroken' = sent.broken
                /\ lpc' = "idle"
                /\ UNCHANGED <<request_queue, response_events>>
    /\ UNCHANGED <<response_dict, running>>

\* The request's event is set.
Signalled(n) == n \in DOMAIN response_events /\ response_events[n]

\* event.wait() with no timeout: it returns only when the event is set.
WaitReturns_NoTimeout ==
    /\ lpc = "wait"
    /\ Signalled(cur.n)
    /\ lpc' = "check"
    /\ waited' = "signalled"
    /\ UNCHANGED <<reqCount, cur, connBroken, wire, raisedOut, took, sharedVars>>

\* Line 76: event.wait(timeout=30.0) returns, at once when the event is set
\* and after the 30 seconds when it is not.  do_POST ignores which.
WaitReturns ==
    /\ lpc = "wait"
    /\ lpc' = "check"
    /\ waited' = IF Signalled(cur.n) THEN "signalled" ELSE "timeout"
    /\ UNCHANGED <<reqCount, cur, connBroken, wire, raisedOut, took, sharedVars>>

\* Lines 79-85 with the response read but left in response_dict (a lookup for
\* the pop of line 80).
TakeResponse_NoPop(good) ==
    /\ lpc = "check"
    /\ LET has == cur.n \in DOMAIN response_dict
           sent == IF has
                   THEN RespondInTry(200, response_dict[cur.n], good)
                   ELSE RespondInTry(500, TimeoutResponse, good)
       IN  /\ wire' = sent.wire
           /\ raisedOut' = sent.raised
           /\ connBroken' = sent.broken
           /\ lpc' = IF sent.caught THEN "idle" ELSE "cleanup"
           /\ took' = IF has THEN "outcome" ELSE "timeout"
    /\ UNCHANGED <<reqCount, cur, waited, sharedVars>>

\* Lines 79-85 with a timeout that withdraws the request's envelope from the
\* queue.
TakeResponse_CancelOnTimeout(good) ==
    /\ lpc = "check"
    /\ LET has == cur.n \in DOMAIN response_dict
           sent == IF has
                   THEN RespondInTry(200, response_dict[cur.n], good)
                   ELSE RespondInTry(500, TimeoutResponse, good)
       IN  /\ response_dict' = IF has THEN DictWithout(response_dict, cur.n)
                                      ELSE response_dict
           /\ request_queue' = IF has THEN request_queue
                                ELSE SelectSeq(request_queue,
                                               LAMBDA r : r.id # cur.n)
           /\ wire' = sent.wire
           /\ raisedOut' = sent.raised
           /\ connBroken' = sent.broken
           /\ lpc' = IF sent.caught THEN "idle" ELSE "cleanup"
           /\ took' = IF has THEN "outcome" ELSE "timeout"
    /\ UNCHANGED <<reqCount, cur, waited, response_events, running>>

\* Lines 79-85: take the response if there is one and send it with 200, else
\* send the timeout error with 500.  When the send raised, the except clause
\* has answered and do_POST is over, the cleanup skipped.
TakeResponse(good) ==
    /\ lpc = "check"
    /\ LET has == cur.n \in DOMAIN response_dict
           sent == IF has
                   THEN RespondInTry(200, response_dict[cur.n], good)
                   ELSE RespondInTry(500, TimeoutResponse, good)
       IN  /\ response_dict' = IF has THEN DictWithout(response_dict, cur.n)
                                      ELSE response_dict
           /\ wire' = sent.wire
           /\ raisedOut' = sent.raised
           /\ connBroken' = sent.broken
           /\ lpc' = IF sent.caught THEN "idle" ELSE "cleanup"
           /\ took' = IF has THEN "outcome" ELSE "timeout"
    /\ UNCHANGED <<reqCount, cur, waited, request_queue, response_events, running>>

\* Lines 88-89: the request's event is removed.
Cleanup ==
    /\ lpc = "cleanup"
    /\ response_events' = DictWithout(response_events, cur.n)
    /\ lpc' = "idle"
    /\ UNCHANGED <<reqCount, cur, connBroken, wire, raisedOut, waited, took,
                   request_queue, response_dict, running>>

\* -------------------------------------------------- the Listener: do_GET

Paths == {"/health", "/other"}
Health == [status |-> "ok", server |-> "blender-mcp"]
NotFound == [error |-> "Not found"]

\* A do_GET that puts the request on the queue for the main thread.
DoGet_Enqueue(path, good) ==
    /\ lpc = "idle"
    /\ running
    /\ LET sent == IF path = "/health"
                   THEN RespondInExcept(200, Health, good)
                   ELSE RespondInExcept(404, NotFound, good)
       IN  /\ wire' = sent.wire
           /\ raisedOut' = sent.raised
           /\ connBroken' = sent.broken
    /\ cur' = [n |-> 0, body |-> "GET", action |-> path]
    /\ waited' = "none"
    /\ took' = "none"
    /\ request_queue' = Append(request_queue, Envelope(0, path))
    /\ UNCHANGED <<reqCount, lpc, response_dict, response_events, running>>

\* do_GET, lines 96-101: /health is answered 200, any other path 404; there
\* is no try, so an exception of _send_json_response leaves do_GET.  poll()
\* runs it only while the server is running.
DoGet(path, good) ==
    /\ lpc = "idle"
    /\ running
    /\ LET sent == IF path = "/health"
                   THEN RespondInExcept(200, Health, good)
                   ELSE RespondInExcept(404, NotFound, good)
       IN  /\ wire' = sent.wire
           /\ raisedOut' = sent.raised
           /\ connBroken' = sent.broken
    /\ cur' = [n |-> 0, body |-> "GET", action |-> path]
    /\ waited' = "none"
    /\ took' = "none"
    /\ UNCHANGED <<reqCount, lpc, sharedVars>>

\* -------------------------------------------- the Dispatcher: process_queue

\* A routing that reports a handler's exception as a result.
Dispatch_RaiseAsResult(action) ==
    IF action \in HandlerRegistry
    THEN Success(IF HandlerRaises(action) THEN HandlerMessage(action)
                                          ELSE HandlerResult(action))
    ELSE Failure(<<"Unknown action: ", PyStr(action)>>)

\* Lines 153-163: the response for a dequeued request whose action is hashable.
Dispatch(action) ==
    IF action \in HandlerRegistry
    THEN IF HandlerRaises(action)
         THEN Failure(HandlerMessage(action))
         ELSE Success(HandlerResult(action))
    ELSE Failure(<<"Unknown action: ", PyStr(action)>>)

\* A queue that hands out the newest envelope (LifoQueue for Queue).
Dequeue_Lifo(q) == [item |-> q[Len(q)], rest |-> SubSeq(q, 1, Len(q) - 1)]

\* A pump that drains: the oldest envelope is processed, the others dropped.
Dequeue_Drain(q) == [item |-> Head(q), rest |-> <<>>]

\* request_queue.get_nowait(): the oldest envelope and what is left.
Dequeue(q) == [item |-> Head(q), rest |-> Tail(q)]

\* Lines 149, 170-171: the queue is empty, get_nowait raises Empty.
ProcessQueueEmpty ==
    /\ dpc = "idle"
    /\ request_queue = <<>>
    /\ UNCHANGED <<dispatchVars, sharedVars>>

\* process_queue that signals the request's event and stores no response.
ProcessQueueDispatch_SignalOnly ==
    /\ dpc = "idle"
    /\ request_queue # <<>>
    /\ LET got == Dequeue(request_queue)
           request == got.item
       IN  /\ request_queue' = got.rest
           /\ dispatchLog' = Append(dispatchLog, request.id)
           /\ foundLog' = Append(foundLog, Len(request_queue))
           /\ resolveLog' = Append(resolveLog, request.id)
           /\ response_events' =
                 IF request.id \in DOMAIN response_events
                 THEN [response_events EXCEPT ![request.id] = TRUE]
                 ELSE response_events
    /\ UNCHANGED <<dpc, dreq, handlerLog, escaped, response_dict, running>>

\* process_queue with the handler's exception not caught (no try around the
\* handler call): the exception leaves process_queue and nothing is stored.
ProcessQueueDispatch_Uncaught ==
    /\ dpc = "idle"
    /\ request_queue # <<>>
    /\ LET got == Dequeue(request_queue)
           request == got.item
           invoked == ~Unhashable(request.action) /\ request.action \in HandlerRegistry
           raises == Unhashable(request.action)
                        \/ (invoked /\ HandlerRaises(request.action))
       IN  /\ request_queue' = got.rest
           /\ dispatchLog' = Append(dispatchLog, request.id)
           /\ foundLog' = Append(foundLog, Len(request_queue))
           /\ handlerLog' = IF invoked
                            THEN Append(handlerLog,
                                        [id |-> request.id,
                                         raised |-> HandlerRaises(request.action)])
                            ELSE handlerLog
           /\ IF raises
              THEN /\ escaped' = TRUE
                   /\ UNCHANGED <<dpc, dreq, resolveLog, response_dict>>
              ELSE /\ response_dict' = DictWith(response_dict, request.id,
                                                Dispatch(request.action))
                   /\ resolveLog' = Append(resolveLog, request.id)
                   /\ dreq' = request.id
                   /\ dpc' = "stored"
                   /\ UNCHANGED escaped
    /\ UNCHANGED <<response_events, running>>

\* process_queue that calls the handler a second time when the first call
\* returned.
ProcessQueueDispatch_InvokeTwice ==
    /\ dpc = "idle"
    /\ request_queue # <<>>
    /\ LET got == Dequeue(request_queue)
           request == got.item
           call == [id |-> request.id, raised |-> HandlerRaises(request.action)]
       IN  /\ request_queue' = got.rest
           /\ dispatchLog' = Append(dispatchLog, request.id)
           /\ foundLog' = Append(foundLog, Len(request_queue))
           /\ IF Unhashable(request.action)
              THEN /\ escaped' = TRUE
                   /\ UNCHANGED <<dpc, dreq, handlerLog, resolveLog, response_dict>>
              ELSE /\ handlerLog' =
                         IF request.action \notin HandlerRegistry
                         THEN handlerLog
                         ELSE IF HandlerRaises(request.action)
                         THEN Append(handlerLog, call)
                         ELSE Append(Append(handlerLog, call), call)
                   /\ response_dict' = DictWith(response_dict, request.id,
                                                Dispatch(request.action))
                   /\ resolveLog' = Append(resolveLog, request.id)
                   /\ dreq' = request.id
                   /\ dpc' = "stored"
                   /\ UNCHANGED escaped
    /\ UNCHANGED <<response_events, running>>

\* Lines 149-166: dequeue one request, route it, run its handler, store the
\* response.  handler_registry.get(action) raises TypeError for an
\* unhashable action; `except Empty` does not catch it.
ProcessQueueDispatch ==
    /\ dpc = "idle"
    /\ request_queue # <<>>
    /\ LET got == Dequeue(request_queue)
           request == got.item
       IN  /\ request_queue' = got.rest
           /\ dispatchLog' = Append(dispatchLog, request.id)
           /\ foundLog' = Append(foundLog, Len(request_queue))
           /\ IF Unhashable(request.action)
              THEN /\ escaped' = TRUE
                   /\ UNCHANGED <<dpc, dreq, handlerLog, resolveLog, response_dict>>
              ELSE /\ handlerLog' = IF request.action \in HandlerRegistry
                                    THEN Append(handlerLog,
                                                [id |-> request.id,
                                                 raised |-> HandlerRaises(request.action)])
                                    ELSE handlerLog
                   /\ response_dict' = DictWith(response_dict, request.id,
                                                Dispatch(request.action))
                   /\ resolveLog' = Append(resolveLog, request.id)
                   /\ dreq' = request.id
                   /\ dpc' = "stored"
                   /\ UNCHANGED escaped
    /\ UNCHANGED <<response_events, running>>

\* Line 167: is the request's event still registered?
ProcessQueueCheckEvent ==
    /\ dpc = "stored"
    /\ dpc' = IF server # "None" /\ dreq \in DOMAIN response_events
              THEN "set" ELSE "idle"
    /\ UNCHANGED <<dreq, dispatchLog, handlerLog, resolveLog, foundLog, escaped,
                   sharedVars>>

\* Line 168: response_events[request_id].set(); a KeyError if the event was
\* removed since line 167.
ProcessQueueSetEvent ==
    /\ dpc = "set"
    /\ dpc' = "idle"
    /\ IF dreq \in DOMAIN response_events
       THEN /\ response_events' = [response_events EXCEPT ![dreq] = TRUE]
            /\ UNCHANGED escaped
       ELSE /\ escaped' = TRUE
            /\ UNCHANGED response_events
    /\ UNCHANGED <<dreq, dispatchLog, handlerLog, resolveLog, foundLog,
                   request_queue, response_dict, running>>

\* ------------------------------------------------------ Spec: two contexts

\* A client's POST arrives and poll() hands it to do_POST.
Receive ==
    \E body \in Bodies : \E action \in ActionValues : \E good \in WritesAccepted :
       /\ (body # "object" => action = "<absent>")
       /\ (body = "object" => StaysConnected(good))
       /\ DoPostReceive(body, action, good)

\* The client of a GET has closed its connection before do_GET writes, or
\* stays connected.
GetWritesAccepted == {0, 3}

\* A client's GET arrives and poll() hands it to do_GET.
Get == \E path \in Paths : \E good \in GetWritesAccepted : DoGet(path, good)

\* do_POST takes its response and answers, whatever the client does.
Respond == \E good \in WritesAccepted : TakeResponse(good)

ListenerReceive == Receive /\ UNCHANGED <<dispatchVars, modalVars, lifeVars, otherVars>>
ListenerGet == Get /\ UNCHANGED <<dispatchVars, modalVars, lifeVars, otherVars>>
ListenerWaitReturns == WaitReturns /\ UNCHANGED <<dispatchVars, modalVars, lifeVars, otherVars>>
ListenerTakeResponse == Respond /\ UNCHANGED <<dispatchVars, modalVars, lifeVars, otherVars>>
ListenerCleanup == Cleanup /\ UNCHANGED <<dispatchVars, modalVars, lifeVars, otherVars>>

DispatcherEmpty == ProcessQueueEmpty /\ UNCHANGED <<listenerVars, modalVars, lifeVars, otherVars>>
DispatcherDispatch == ProcessQueueDispatch /\ UNCHANGED <<listenerVars, modalVars, lifeVars, otherVars>>
DispatcherCheckEvent == ProcessQueueCheckEvent /\ UNCHANGED <<listenerVars, modalVars, lifeVars, otherVars>>
DispatcherSetEvent == ProcessQueueSetEvent /\ UNCHANGED <<listenerVars, modalVars, lifeVars, otherVars>>

Next ==
    \/ ListenerReceive
    \/ ListenerGet
    \/ ListenerWaitReturns
    \/ ListenerTakeResponse
    \/ ListenerCleanup
    \/ DispatcherEmpty
    \/ DispatcherDispatch
    \/ DispatcherCheckEvent
    \/ DispatcherSetEvent

Spec == Init /\ [][Next]_vars

\* ------------------------------------------- SpecModal: the modal operator

\* modal() that calls process_queue() without calling poll() first.
ModalTimer_PumpFirst ==
    /\ tpc = "idle"
    /\ modalHandlers > 0
    /\ IF global_server # "None" /\ running
       THEN tpc' = "pump" /\ UNCHANGED modalHandlers
       ELSE tpc' = "idle" /\ modalHandlers' = modalHandlers - 1
    /\ UNCHANGED <<listenerVars, dispatchVars, sharedVars, lifeVars, otherVars>>

\* modal(), TIMER event, lines 18-22: the server is running, poll() is called.
ModalTimer ==
    /\ tpc = "idle"
    /\ modalHandlers > 0
    /\ IF global_server # "None" /\ running
       THEN tpc' = "poll" /\ UNCHANGED modalHandlers
       ELSE tpc' = "idle" /\ modalHandlers' = modalHandlers - 1
    /\ UNCHANGED <<listenerVars, dispatchVars, sharedVars, lifeVars, otherVars>>

\* poll(): select finds no connection ready, handle_request is not called.
PollNothing ==
    /\ tpc = "poll"
    /\ tpc' = "pump"
    /\ UNCHANGED <<modalHandlers, listenerVars, dispatchVars, sharedVars,
                   lifeVars, otherVars>>

\* poll(): a connection is ready; handle_request runs do_POST on this thread.
PollAccept ==
    /\ tpc = "poll"
    /\ Receive
    /\ tpc' = "handling"
    /\ UNCHANGED <<modalHandlers, dispatchVars, lifeVars, otherVars>>

\* poll(): a connection is ready; handle_request runs do_GET on this thread
\* and it returns.
PollGet ==
    /\ tpc = "poll"
    /\ Get
    /\ tpc' = "pump"
    /\ UNCHANGED <<modalHandlers, dispatchVars, lifeVars, otherVars>>

\* do_POST goes on, on the thread that called poll().
Handling(step) ==
    /\ tpc = "handling"
    /\ step
    /\ UNCHANGED <<modalVars, dispatchVars, lifeVars, otherVars>>

PollWaitReturns == Handling(WaitReturns)
PollTakeResponse == Handling(Respond)
PollCleanup == Handling(Cleanup)

\* modal() that returns after poll() when poll() handled a POST, without
\* calling process_queue().
PollReturn_SkipPump ==
    /\ tpc = "handling"
    /\ lpc = "idle"
    /\ tpc' = "idle"
    /\ UNCHANGED <<modalHandlers, listenerVars, dispatchVars, sharedVars,
                   lifeVars, otherVars>>

\* do_POST returned (or raised; handle_request_noblock swallows it): poll()
\* returns to modal().
PollReturn ==
    /\ tpc = "handling"
    /\ lpc = "idle"
    /\ tpc' = "pump"
    /\ UNCHANGED <<modalHandlers, listenerVars, dispatchVars, sharedVars,
                   lifeVars, otherVars>>

\* The step process_queue is about to take ends with an exception leaving
\* process_queue: the TypeError of line 154 or the KeyError of line 168.
ProcessQueueRaises ==
    \/ /\ dpc = "idle"
       /\ request_queue # <<>>
       /\ Unhashable(Dequeue(request_queue).item.action)
    \/ /\ dpc = "set"
       /\ dreq \notin DOMAIN response_events

\* modal(), line 24: process_queue() runs; when it returns modal() returns
\* PASS_THROUGH, and when an exception leaves it the exception leaves modal()
\* and the host drops the operator.
Pumping(step) ==
    /\ tpc = "pump"
    /\ step
    /\ tpc' = IF dpc' = "idle" THEN "idle" ELSE "pump"
    /\ modalHandlers' = IF ProcessQueueRaises THEN modalHandlers - 1
                                              ELSE modalHandlers
    /\ UNCHANGED <<listenerVars, lifeVars, otherVars>>

PumpEmpty == Pumping(ProcessQueueEmpty)
PumpDispatch == Pumping(ProcessQueueDispatch)
PumpCheckEvent == Pumping(ProcessQueueCheckEvent)
PumpSetEvent == Pumping(ProcessQueueSetEvent)

NextModal ==
    \/ ModalTimer
    \/ PollNothing
    \/ PollAccept
    \/ PollGet
    \/ PollWaitReturns
    \/ PollTakeResponse
    \/ PollCleanup
    \/ PollReturn
    \/ PumpEmpty
    \/ PumpDispatch
    \/ PumpCheckEvent
    \/ PumpSetEvent

SpecModal == Init /\ [][NextModal]_vars

\* The host keeps delivering TIMER events and the main thread keeps running
\* what it is running: every step of modal() but a request arriving is
\* eventually taken.
MainThreadStep ==
    \/ ModalTimer
    \/ PollNothing
    \/ PollWaitReturns
    \/ PollTakeResponse
    \/ PollCleanup
    \/ PollReturn
    \/ PumpEmpty
    \/ PumpDispatch
    \/ PumpCheckEvent
    \/ PumpSetEvent

FairSpecModal == SpecModal /\ WF_vars(MainThreadStep)

\* ------------------------------------- SpecAddon: starting and stopping

\* start() that marks the instance running before it binds the socket.
ServerStart_RunningFirst(instance, bindOk) ==
    IF instance.running
    THEN [instance |-> instance, raised |-> FALSE, bound |-> 0]
    ELSE IF bindOk
    THEN [instance |-> Listening, raised |-> FALSE, bound |-> 1]
    ELSE [instance |-> [running |-> TRUE, server |-> instance.server],
          raised |-> TRUE, bound |-> 0]

\* start() without the `if self.running: return` of lines 129-130.
ServerStart_Unguarded(instance, bindOk) ==
    IF bindOk
    THEN [instance |-> Listening, raised |-> FALSE, bound |-> 1]
    ELSE [instance |-> instance, raised |-> TRUE, bound |-> 0]

\* BlenderHTTPServer.start(), lines 127-139, on an instance with the given
\* fields.  A running instance is left alone.  Otherwise the
\* NonBlockingHTTPServer is constructed, which binds the socket: when the
\* bind fails, TCPServer.__init__ closes its socket and raises OSError before
\* self.server and self.running are assigned.  `bound` counts the listening
\* sockets the call opened.
ServerStart(instance, bindOk) ==
    IF instance.running
    THEN [instance |-> instance, raised |-> FALSE, bound |-> 0]
    ELSE IF bindOk
    THEN [instance |-> Listening, raised |-> FALSE, bound |-> 1]
    ELSE [instance |-> instance, raised |-> TRUE, bound |-> 0]

\* shutdown() without the `self.running = False` of line 176.
ServerShutdown_KeepRunning(instance) ==
    IF instance.server # "None"
    THEN [instance |-> [running |-> instance.running, server |-> "None"],
          closed |-> 1]
    ELSE [instance |-> instance, closed |-> 0]

\* BlenderHTTPServer.shutdown(), lines 173-179.  `closed` counts the
\* listening sockets the call closed.
ServerShutdown(instance) ==
    IF instance.server # "None"
    THEN [instance |-> Constructed, closed |-> 1]
    ELSE [instance |-> instance, closed |-> 0]

\* The fields of the instance the variables describe.
Instance == [running |-> running, server |-> server]

\* get_server() returns an instance and it is running.
ServerRunning == global_server # "None" /\ running

\* BLENDER_OT_mcp_server_start.execute(), lines 32-58, run by the host on
\* the main thread between two events.
StartOperator(bindOk) ==
    /\ tpc = "idle"
    /\ UNCHANGED otherVars
    /\ IF ServerRunning
       THEN /\ lastOp' = OpRecord("execute", "CANCELLED", "WARNING", FALSE,
                                  Constructed)
            /\ UNCHANGED <<sharedVars, modalHandlers, server, global_server,
                           sockets, instancesCreated>>
       ELSE /\ instancesCreated < MaxStarts
            /\ instancesCreated' = instancesCreated + 1
            /\ LET started == ServerStart(Constructed, bindOk)
               IN  IF started.raised
                   THEN /\ lastOp' = OpRecord("execute", "CANCELLED", "ERROR",
                                              TRUE, started.instance)
                        /\ sockets' = sockets + started.bound
                        /\ UNCHANGED <<sharedVars, modalHandlers, server,
                                       global_server>>
                   ELSE \* the new instance, with its own queue and
                        \* dictionaries, is the one the variables describe
                        /\ running' = started.instance.running
                        /\ server' = started.instance.server
                        /\ sockets' = sockets + started.bound
                        /\ request_queue' = <<>>
                        /\ response_dict' = <<>>
                        /\ response_events' = <<>>
                        /\ global_server' = "instance"
                        /\ modalHandlers' = modalHandlers + 1
                        /\ lastOp' = OpRecord("execute", "RUNNING_MODAL", "INFO",
                                              TRUE, started.instance)
    /\ UNCHANGED <<listenerVars, dispatchVars, tpc>>

\* BLENDER_OT_mcp_server_stop.execute(), lines 74-83.
StopOperator ==
    /\ tpc = "idle"
    /\ UNCHANGED otherVars
    /\ IF ServerRunning
       THEN LET stopped == ServerShutdown(Instance)
            IN  /\ running' = stopped.instance.running
                /\ server' = stopped.instance.server
                /\ sockets' = sockets - stopped.closed
                /\ global_server' = "None"
                /\ lastOp' = OpRecord("stop", "FINISHED", "INFO", FALSE,
                                      stopped.instance)
       ELSE /\ lastOp' = OpRecord("stop", "FINISHED", "WARNING", FALSE, Instance)
            /\ UNCHANGED <<running, server, sockets, global_server>>
    /\ UNCHANGED <<request_queue, response_dict, response_events,
                   listenerVars, dispatchVars, modalVars, instancesCreated>>

\* unregister() of the add-on, blender_addon/__init__.py: the running server
\* is shut down, the global keeps referring to it.
Unregister ==
    /\ tpc = "idle"
    /\ UNCHANGED otherVars
    /\ IF ServerRunning
       THEN LET stopped == ServerShutdown(Instance)
            IN  /\ running' = stopped.instance.running
                /\ server' = stopped.instance.server
                /\ sockets' = sockets - stopped.closed
                /\ lastOp' = OpRecord("unregister", "none", "none", FALSE,
                                      stopped.instance)
       ELSE /\ lastOp' = OpRecord("unregister", "none", "none", FALSE, Instance)
            /\ UNCHANGED <<running, server, sockets>>
    /\ UNCHANGED <<request_queue, response_dict, response_events, global_server,
                   listenerVars, dispatchVars, modalVars, instancesCreated>>

\* get_server().start() called on the main thread (a script, the console):
\* start() on the instance the global refers to.  A start that binds makes a
\* new NonBlockingHTTPServer, with empty response_events, around the
\* instance's queue and response_dict.
ServerStartCall(bindOk) ==
    /\ tpc = "idle"
    /\ UNCHANGED otherVars
    /\ global_server # "None"
    /\ LET started == ServerStart(Instance, bindOk)
       IN  /\ running' = started.instance.running
           /\ server' = started.instance.server
           /\ sockets' = sockets + started.bound
           /\ response_events' = IF started.bound = 1 THEN <<>>
                                                      ELSE response_events
           /\ lastOp' = OpRecord("start", IF started.raised THEN "raised"
                                                            ELSE "returned",
                                 "none", FALSE, started.instance)
    /\ UNCHANGED <<request_queue, response_dict, global_server,
                   listenerVars, dispatchVars, modalVars, instancesCreated>>

\* get_server().shutdown() called on the main thread (a script, the
\* console): shutdown() on the instance the global refers to, running or not.
ServerShutdownCall ==
    /\ tpc = "idle"
    /\ UNCHANGED otherVars
    /\ global_server # "None"
    /\ LET stopped == ServerShutdown(Instance)
       IN  /\ running' = stopped.instance.running
           /\ server' = stopped.instance.server
           /\ sockets' = sockets - stopped.closed
           /\ lastOp' = OpRecord("shutdown", IF stopped.closed = 1 THEN "closed"
                                                                   ELSE "no-op",
                                 "none", FALSE, stopped.instance)
    /\ UNCHANGED <<request_queue, response_dict, response_events, global_server,
                   listenerVars, dispatchVars, modalVars, instancesCreated>>

\* The server's variables before the first start: no instance, no modal
\* operator.
Stopped ==
    /\ request_queue = <<>>
    /\ response_dict = <<>>
    /\ response_events = <<>>
    /\ running = FALSE
    /\ reqCount = 0
    /\ lpc = "idle"
    /\ cur = NoRequest
    /\ connBroken = FALSE
    /\ wire = <<>>
    /\ raisedOut = FALSE
    /\ waited = "none"
    /\ took = "none"
    /\ dpc = "idle"
    /\ dreq = 0
    /\ dispatchLog = <<>>
    /\ handlerLog = <<>>
    /\ resolveLog = <<>>
    /\ foundLog = <<>>
    /\ escaped = FALSE
    /\ tpc = "idle"
    /\ modalHandlers = 0
    /\ server = "None"
    /\ global_server = "None"
    /\ sockets = 0
    /\ instancesCreated = 0
    /\ lastOp = NoOp

InitAddon == Stopped /\ IdsUnused /\ AbbrUnused

OperatorStart == \E bindOk \in BOOLEAN : StartOperator(bindOk)
OperatorStop == StopOperator
AddonUnregister == Unregister
ScriptStart == \E bindOk \in BOOLEAN : ServerStartCall(bindOk)
ScriptShutdown == ServerShutdownCall

NextAddon ==
    \/ ModalTimer
    \/ PollNothing
    \/ PollAccept
    \/ PollGet
    \/ PollWaitReturns
    \/ PollTakeResponse
    \/ PollCleanup
    \/ PollReturn
    \/ PumpEmpty
    \/ PumpDispatch
    \/ PumpCheckEvent
    \/ PumpSetEvent
    \/ OperatorStart
    \/ OperatorStop
    \/ AddonUnregister
    \/ ScriptStart
    \/ ScriptShutdown

SpecAddon == InitAddon /\ [][NextAddon]_vars

\* ------------------------------------- SpecAbbr: _get_abbreviation

\* The variables of the server; _get_abbreviation leaves them alone.
mainVars == <<listenerVars, dispatchVars, sharedVars, modalVars, lifeVars>>

\* Longest name _get_abbreviation is called with.
MaxNameLen == 3

\* The characters of a name: a lower-case letter, an upper-case letter, a
\* separator and a digit.
NameChars == {"a", "B", "_", "1"}

\* str.upper() and str.lower() of one character.
Upper(c) == CASE c = "a" -> "A"
              [] c = "b" -> "B"
              [] OTHER -> c
Lower(c) == CASE c = "A" -> "a"
              [] c = "B" -> "b"
              [] OTHER -> c

\* The characters name.replace("_", "").replace(".", "").replace(" ", "")
\* removes.
Separators == {"_", ".", " "}
Clean(str) == SelectSeq(str, LAMBDA c : c \notin Separators)

\* str(count) of the f-string: the decimal digits of count.
DigitChars == <<"0", "1", "2", "3", "4", "5", "6", "7", "8", "9">>
RECURSIVE Decimal(_)
Decimal(n) == IF n < 10 THEN <<DigitChars[n + 1]>>
              ELSE Decimal(n \div 10) \o <<DigitChars[(n % 10) + 1]>>

\* Strings are sequences of characters.  The names of the calls, and the keys
\* `used` may hold: the abbreviations the function tries for a name that
\* starts with "a" or with "_".
Names == UNION {[1..len -> NameChars] : len \in 1..MaxNameLen}
UsedKeys == {<<"A">>, <<"A", "a">>, <<"A", "b">>, <<"A", "1">>, <<"A", "2">>,
             <<"_">>, <<"_", "1">>}

\* The call _get_abbreviation(name, used): any non-empty name, any map; of
\* the map only the keys matter.
InitAbbr ==
    /\ Stopped
    /\ IdsUnused
    /\ name \in Names
    /\ used \in SUBSET UsedKeys
    /\ index = 1
    /\ count = 1
    /\ abbr_pc = "first"
    /\ returned = <<>>

\* Lines 46-48: the upper-cased first character, returned when it is free.
AbbrFirst ==
    /\ abbr_pc = "first"
    /\ LET abbr == <<Upper(name[1])>>
       IN  IF abbr \notin used
           THEN returned' = abbr /\ abbr_pc' = "done"
           ELSE returned' = returned /\ abbr_pc' = "loop"
    /\ UNCHANGED <<name, used, index, count, mainVars, idVars>>

\* The for loop that returns its first candidate without looking it up.
AbbrLoop_NoLookup ==
    /\ abbr_pc = "loop"
    /\ LET clean == Clean(name)
       IN  IF index >= Len(clean)
           THEN /\ abbr_pc' = "count"
                /\ UNCHANGED <<index, returned>>
           ELSE /\ returned' = <<Upper(clean[1]), Lower(clean[index + 1])>>
                /\ abbr_pc' = "done"
                /\ UNCHANGED index
    /\ UNCHANGED <<name, used, count, mainVars, idVars>>

\* Lines 49-53, one iteration of `for i in range(1, len(clean))`: the first
\* character of the cleaned name with its character i, returned when free;
\* the loop ends when i reaches len(clean).
AbbrLoop ==
    /\ abbr_pc = "loop"
    /\ LET clean == Clean(name)
       IN  IF index >= Len(clean)
           THEN /\ abbr_pc' = "count"
                /\ UNCHANGED <<index, returned>>
           ELSE LET candidate == <<Upper(clean[1]), Lower(clean[index + 1])>>
                IN  IF candidate \notin used
                    THEN /\ returned' = candidate
                         /\ abbr_pc' = "done"
                         /\ UNCHANGED index
                    ELSE /\ index' = index + 1
                         /\ UNCHANGED <<abbr_pc, returned>>
    /\ UNCHANGED <<name, used, count, mainVars, idVars>>

\* Lines 54-57, one test of `while f"{abbr}{count}" in used`, and the return
\* that follows the loop.
AbbrCount ==
    /\ abbr_pc = "count"
    /\ LET numbered == <<Upper(name[1])>> \o Decimal(count)
       IN  IF numbered \in used
           THEN /\ count' = count + 1
                /\ UNCHANGED <<abbr_pc, returned>>
           ELSE /\ returned' = numbered
                /\ abbr_pc' = "done"
                /\ UNCHANGED count
    /\ UNCHANGED <<name, used, index, mainVars, idVars>>

NextAbbr ==
    \/ AbbrFirst
    \/ AbbrLoop
    \/ AbbrCount

SpecAbbr == InitAbbr /\ [][NextAbbr]_vars

\* The call keeps running until it returns.
FairSpecAbbr == SpecAbbr /\ WF_vars(NextAbbr)

\* ------------------------------------------- SpecIds: the request ids

\* Largest reading of the clock.
MaxClock == 2

\* The addresses the allocator gives to request dicts: id(request).  Two
\* objects alive at the same time have different addresses; the address of
\* an object that was freed may be given to a new one.
Addresses == {"0x7f01", "0x7f02"}

\* Line 65: f"{id(request)}_{time.time()}".
RequestId(address, reading) == <<address, reading>>

\* The ids outstanding: a PendingCall registered or an Outcome stored.
Outstanding == event_ids \cup dict_ids

\* No request has arrived yet; the server's own variables are left at their
\* first values.
InitIds ==
    /\ Stopped
    /\ AbbrUnused
    /\ clock = 0
    /\ heap = {}
    /\ event_ids = {}
    /\ dict_ids = {}
    /\ queue_ids = <<>>
    /\ request_id = <<>>
    /\ supplied_id = <<>>
    /\ ids_pc = "idle"
    /\ reused = {}

\* Lines 64-73, called by poll(): json.loads makes the request dict at a free
\* address, the id is made from the address and the clock and written over
\* whatever `_request_id` the client sent, the event is stored under it and
\* the request is queued.
IdsReceive(address, supplied) ==
    /\ ids_pc = "idle"
    /\ address \notin heap
    /\ LET made == RequestId(address, clock)
       IN  /\ request_id' = made
           /\ supplied_id' = supplied
           /\ heap' = heap \cup {address}
           /\ reused' = IF made \in Outstanding THEN reused \cup {made}
                                                ELSE reused
           /\ event_ids' = event_ids \cup {made}
           /\ queue_ids' = Append(queue_ids, made)
           /\ ids_pc' = "wait"
    /\ UNCHANGED <<clock, dict_ids, mainVars, abbrVars>>

\* Line 76: the thread that would set the event is the one waiting, so the
\* wait lasts its 30 seconds and the clock has advanced when it returns.
IdsWait(reading) ==
    /\ ids_pc = "wait"
    /\ reading > clock
    /\ clock' = reading
    /\ ids_pc' = "check"
    /\ UNCHANGED <<heap, event_ids, dict_ids, queue_ids, request_id,
                   supplied_id, reused, mainVars, abbrVars>>

\* Lines 79-94: an Outcome stored under the id is popped and sent, else the
\* timeout is sent; the event is deleted unless the write raised.  do_POST
\* returns and its locals are gone.
IdsRespond(written) ==
    /\ ids_pc = "check"
    /\ dict_ids' = dict_ids \ {request_id}
    /\ event_ids' = IF written THEN event_ids \ {request_id} ELSE event_ids
    /\ request_id' = <<>>
    /\ supplied_id' = <<>>
    /\ ids_pc' = "pump"
    /\ UNCHANGED <<clock, heap, queue_ids, reused, mainVars, abbrVars>>

\* process_queue, lines 149-171, called by modal() after poll(): the request
\* is dequeued, its Outcome stored under its id, and the request dict is
\* freed when process_queue returns.
IdsPump ==
    /\ ids_pc = "pump"
    /\ queue_ids # <<>>
    /\ queue_ids' = Tail(queue_ids)
    /\ dict_ids' = dict_ids \cup {Head(queue_ids)}
    /\ heap' = heap \ {Head(queue_ids)[1]}
    /\ ids_pc' = "idle"
    /\ UNCHANGED <<clock, event_ids, request_id, supplied_id, reused,
                   mainVars, abbrVars>>

\* time.time() is the system's wall clock: between two ticks it advances, or
\* it is set (by the user, or by a time synchronisation step) to another
\* reading.
ClockSet(reading) ==
    /\ ids_pc = "idle"
    /\ reading # clock
    /\ clock' = reading
    /\ UNCHANGED <<heap, event_ids, dict_ids, queue_ids, request_id,
                   supplied_id, ids_pc, reused, mainVars, abbrVars>>

\* The `_request_id` a client may send: none, or the id of a request that is
\* outstanding.
SuppliedIds == {<<>>} \cup Outstanding

IdsPost == \E address \in Addresses : \E supplied \in SuppliedIds :
              IdsReceive(address, supplied)
IdsWaitTimeout == \E reading \in 0..MaxClock : IdsWait(reading)
IdsAnswer == \E written \in BOOLEAN : IdsRespond(written)
IdsClock == \E reading \in 0..MaxClock : ClockSet(reading)

NextIds ==
    \/ IdsPost
    \/ IdsWaitTimeout
    \/ IdsAnswer
    \/ IdsPump
    \/ IdsClock

SpecIds == InitIds /\ [][NextIds]_vars

\* ------------------------------------------------------------------ claims

\* do_POST has returned for the request cur.
Returned == lpc = "idle" /\ cur # NoRequest

\* The wire holds one complete response: one status line and header block,
\* then one body.
OneResponse(status, data) == wire = <<HeadPart(status), BodyPart(status, data)>>

\* C1: as wired, a well-formed POST of a registered action whose handler
\* returns v is answered 200 {success: true, result: v}, not with a timeout
\* (here: once do_POST has returned to a client that is still connected).
C1_ResultDelivered ==
    (/\ Returned
     /\ cur.body = "object"
     /\ cur.action = "ping"
     /\ ~connBroken)
    => OneResponse(200, Success(HandlerResult(cur.action)))

\* C2: the blocking wait of do_POST never runs on the thread that runs
\* modal(): that thread is never inside event.wait for a request whose
\* envelope only its own later process_queue() call can answer.
C2_WaitNotOnTickThread ==
    ~(/\ tpc = "handling"
      /\ lpc = "wait"
      /\ ~Signalled(cur.n)
      /\ \E i \in 1..Len(request_queue) : request_queue[i].id = cur.n)

\* Number of status lines, and of bodies, on the wire.
CountParts(kind) == Cardinality({i \in 1..Len(wire) : wire[i].part = kind})

\* C3: on every path do_POST writes exactly one response, one status line
\* with its header block and one body, also when the first response fails
\* part-way (here: for a client that stays connected, so that every write
\* do_POST makes reaches it).
C3_ExactlyOneResponse ==
    (Returned /\ ~connBroken)
    => (CountParts("head") = 1 /\ CountParts("body") = 1)

\* The wire holds one terminal response: a status line with its header block
\* and then a JSON body, and nothing else.
TerminalResponse ==
    /\ Len(wire) = 2
    /\ wire[1] = HeadPart(wire[1].status)
    /\ wire[2] = BodyPart(wire[1].status, wire[2].data)
    /\ Serializable(wire[2].data)

Ids(q) == [i \in 1..Len(q) |-> q[i].id]

\* A sequence of numbers is strictly increasing.
Increasing(seq) == \A i, j \in 1..Len(seq) : i < j => seq[i] < seq[j]

\* C5: envelopes are dispatched in the order they were accepted.  Request ids
\* number the requests in the order do_POST enqueued them, so: the ids
\* process_queue has dequeued, followed by the ids still queued, are in
\* increasing order, and handlers were invoked in the order of the dequeues.
C5_Fifo ==
    /\ Increasing(dispatchLog \o Ids(request_queue))
    /\ Increasing([i \in 1..Len(handlerLog) |-> handlerLog[i].id])
    /\ \A i \in 1..Len(handlerLog) :
          \E j \in 1..Len(dispatchLog) : dispatchLog[j] = handlerLog[i].id

\* C5's case: envelopes 1 and 2 were in the queue together; the first call
\* took envelope 1 and the second call envelope 2.
C5_Witness ==
    /\ foundLog = <<2, 1>>
    /\ dispatchLog = <<1, 2>>
    /\ Len(handlerLog) = 2

\* C6: one call of process_queue dequeues exactly one envelope of a
\* non-empty queue, the oldest, invokes at most one handler and leaves the
\* others queued in their order; it dequeues only as its first step; with an
\* empty queue it changes neither the queue nor the registry.
C6_BoundedPump ==
    [][/\ (dispatchLog' # dispatchLog =>
             /\ dpc = "idle"
             /\ request_queue # <<>>
             /\ dispatchLog' = Append(dispatchLog, Head(request_queue).id)
             /\ request_queue' = Tail(request_queue)
             /\ Len(handlerLog') <= Len(handlerLog) + 1)
       /\ (dispatchLog' = dispatchLog =>
             /\ handlerLog' = handlerLog
             /\ resolveLog' = resolveLog
             /\ \/ request_queue' = request_queue
                \/ /\ Len(request_queue') = Len(request_queue) + 1
                   /\ SubSeq(request_queue', 1, Len(request_queue)) = request_queue)
       /\ (dpc = "idle" /\ request_queue = <<>> =>
             /\ dispatchVars' = dispatchVars
             /\ DOMAIN response_dict' \subseteq DOMAIN response_dict
             /\ \A n \in DOMAIN response_events' :
                   response_events'[n] => Signalled(n))
      ]_vars

\* C6's case: a call found two envelopes queued, has processed the older one
\* and the other one is still queued when it returns.
C6_Witness ==
    /\ foundLog = <<2>>
    /\ dispatchLog = <<1>>
    /\ Ids(request_queue) = <<2>>
    /\ Len(handlerLog) = 1
    /\ dpc = "idle"

\* C7: once process_queue has returned, every envelope it dequeued has had
\* exactly one Outcome produced and stored, whatever its action value.
C7_OneOutcomePerEnvelope == dpc = "idle" => resolveLog = dispatchLog

\* C8: no exception raised while a tick is processed leaves process_queue
\* or poll for modal(), so the modal operator stays registered.
C8_NothingEscapes == ~escaped /\ modalHandlers = 1

\* The reference mapping of the Outcomes, by action value.
C9_Reference(action) ==
    CASE action = "ping" -> [success |-> TRUE, payload |-> <<"result of ", "ping">>]
      [] action = "raw" -> [success |-> TRUE, payload |-> <<"result of ", "raw">>]
      [] action = "boom" -> [success |-> FALSE, payload |-> <<"error in ", "boom">>]
      [] action = "does_not_exist" ->
            [success |-> FALSE, payload |-> <<"Unknown action: ", "does_not_exist">>]
      [] action = "<absent>" ->
            [success |-> FALSE, payload |-> <<"Unknown action: ", "None">>]

\* C9: the Outcome process_queue stores for a dequeued envelope is the
\* reference mapping of its action: success with the handler's result,
\* "Unknown action: <name>" for an unregistered name, the exception's message
\* for a handler that raises; and it is stored under the envelope's id.
C9_OutcomeMapping ==
    [][resolveLog' # resolveLog =>
          /\ request_queue # <<>>
          /\ resolveLog' = Append(resolveLog, Head(request_queue).id)
          /\ Head(request_queue).id \in DOMAIN response_dict'
          /\ response_dict'[Head(request_queue).id]
                = C9_Reference(Head(request_queue).action)
          /\ \A n \in DOMAIN response_dict' \ {Head(request_queue).id} :
                n \in DOMAIN response_dict /\ response_dict'[n] = response_dict[n]
      ]_vars

\* C9's case: a success Outcome and an unknown-action Outcome are stored.
C9_Witness ==
    /\ DOMAIN response_dict = {1, 2}
    /\ \E n \in {1, 2} : response_dict[n] = Success(<<"result of ", "ping">>)
    /\ \E n \in {1, 2} :
          response_dict[n] = Failure(<<"Unknown action: ", "does_not_exist">>)

\* The last handler process_queue invoked raised.
LastHandlerRaised == handlerLog # <<>> /\ handlerLog[Len(handlerLog)].raised

\* C10: a handler that raises does not disturb the Dispatcher.  The step in
\* which it raises takes only its own envelope off the queue, stores the
\* failure Outcome, lets no exception out and leaves the server running; and
\* the dispatch that follows a raising handler processes its envelope as
\* usual: a registered action's handler is invoked and its success Outcome
\* is stored.
C10_RaiseContained ==
    [][/\ (Len(handlerLog') > Len(handlerLog) /\ LastHandlerRaised' =>
             /\ request_queue' = Tail(request_queue)
             /\ escaped' = escaped
             /\ dpc' = "stored"
             /\ running' = running
             /\ running
             /\ Head(request_queue).id \in DOMAIN response_dict'
             /\ response_dict'[Head(request_queue).id]
                   = Failure(HandlerMessage(Head(request_queue).action)))
       /\ (LastHandlerRaised /\ dispatchLog' # dispatchLog
           /\ Head(request_queue).action = "ping" =>
             /\ Len(handlerLog') = Len(handlerLog) + 1
             /\ ~LastHandlerRaised'
             /\ response_dict'[Head(request_queue).id]
                   = Success(HandlerResult("ping"))
             /\ dpc' = "stored")
      ]_vars

\* C10's case: the first envelope's handler raised with a second envelope
\* queued behind it, and the next call stored the second one's success.
C10_Witness ==
    /\ dispatchLog = <<1, 2>>
    /\ handlerLog = <<[id |-> 1, raised |-> TRUE], [id |-> 2, raised |-> FALSE]>>
    /\ 1 \in DOMAIN response_dict
    /\ response_dict[1] = Failure(HandlerMessage("boom"))
    /\ 2 \in DOMAIN response_dict
    /\ response_dict[2].success
    /\ running

\* do_POST has returned for request n.
Answered(n) == n \in 1..reqCount /\ ~(cur.n = n /\ lpc # "idle")

\* C11: a request whose wait elapsed with no Outcome stored has, once do_POST
\* is over, no entry left in response_events; and process_queue never
\* reaches line 168 for an id whose entry is gone, so that resolving a
\* timed-out request raises nothing.
C11_TimeoutIndependence ==
    /\ (Returned /\ cur.body = "object" /\ took = "timeout")
          => cur.n \notin DOMAIN response_events
    /\ dpc = "set" => dreq \in DOMAIN response_events

\* C12: once process_queue has returned, response_dict holds no Outcome of a
\* request whose do_POST is over.
C12_LateOutcomeDropped ==
    dpc = "idle" => \A n \in DOMAIN response_dict : ~Answered(n)

\* The elements of a sequence are pairwise different.
NoDuplicates(seq) == \A i, j \in 1..Len(seq) : i # j => seq[i] # seq[j]

\* The data of the bodies on a wire.
BodiesOn(w) == {w[i].data : i \in {j \in 1..Len(w) : w[j].part = "body"}}
StatusesOn(w) == {w[i].status : i \in 1..Len(w)}

C14_SignalImpliesStored ==
    \A n \in DOMAIN response_events :
        response_events[n] => n \in DOMAIN response_dict

\* do_POST is past line 80 for request n: it has looked for n's Outcome.
PastTake(n) == n \in 1..reqCount /\ ~(cur.n = n /\ lpc \in {"wait", "check"})

\* C14, amended: in every state where a request's signal is set, its Outcome
\* has been stored, and it is in response_dict as long as do_POST has not
\* taken it; so a wait that returned because of the signal finds its Outcome.
C14_SignalAfterStore ==
    /\ \A n \in DOMAIN response_events :
          response_events[n] =>
             /\ \E i \in 1..Len(resolveLog) : resolveLog[i] = n
             /\ (~PastTake(n) => n \in DOMAIN response_dict)
    /\ (lpc = "check" /\ waited = "signalled") => cur.n \in DOMAIN response_dict

\* C14's case: the wait has returned because of the signal and do_POST is
\* about to look for the Outcome.
C14_Witness ==
    /\ lpc = "check"
    /\ waited = "signalled"
    /\ Signalled(cur.n)
    /\ cur.n \in DOMAIN response_dict

\* C15: a body that is JSON but no object, and an object without an action,
\* are client errors: answered 400 (here: to a client that stays connected)
\* and never waiting with an envelope queued.
C15_ClientErrorIs400 ==
    /\ (lpc = "wait" => cur.action # "<absent>")
    /\ (/\ Returned
        /\ ~connBroken
        /\ \/ cur.body = "nonobject"
           \/ cur.body = "object" /\ cur.action = "<absent>")
          => wire[1].status = 400

\* One sequence is a prefix of another.
IsPrefix(a, b) == Len(a) <= Len(b) /\ a = SubSeq(b, 1, Len(a))

\* The request do_POST is handling, or handled last, is in none of the queue,
\* the dictionaries and the Dispatcher's logs.
Untouched(n, q, dict, events, log) ==
    /\ \A i \in 1..Len(q) : q[i].id # n
    /\ n \notin DOMAIN dict
    /\ n \notin DOMAIN events
    /\ \A i \in 1..Len(log) : log[i] # n

C17_StatusCodes ==
    cur.body \in Bodies =>
       \A i \in 1..Len(wire) :
          /\ wire[i].status \in {200, 400}
          /\ (cur.body = "object" => wire[i].status = 200)

\* The response do_GET owes to a path.
C18_Reference(path) ==
    IF path = "/health"
    THEN <<HeadPart(200), BodyPart(200, [status |-> "ok", server |-> "blender-mcp"])>>
    ELSE <<HeadPart(404), BodyPart(404, [error |-> "Not found"])>>

\* C18: a GET is answered by do_GET alone, /health with 200 {status: ok,
\* server: ...} and any other path with 404.  The step leaves the queue,
\* response_events, response_dict and the Dispatcher as they were, registers
\* and enqueues nothing and does not wait; nothing but that response is
\* written, all of it when the client stays connected.
C18_GetIsolated ==
    [][(/\ cur'.body = "GET"
        /\ <<cur', wire', connBroken', raisedOut'>>
              # <<cur, wire, connBroken, raisedOut>>)
       => /\ lpc = "idle"
          /\ lpc' = "idle"
          /\ waited' = "none"
          /\ reqCount' = reqCount
          /\ sharedVars' = sharedVars
          /\ dispatchVars' = dispatchVars
          /\ IsPrefix(wire', C18_Reference(cur'.action))
          /\ (~connBroken' => wire' = C18_Reference(cur'.action))
      ]_vars

\* C18's case: /health was answered 200 while an envelope was waiting in the
\* queue and an Outcome was stored.
C18_Witness ==
    /\ Returned
    /\ cur.body = "GET"
    /\ cur.action = "/health"
    /\ wire = C18_Reference("/health")
    /\ Ids(request_queue) = <<2>>
    /\ DOMAIN response_dict = {1}

\* C19: a start while the server is Listening - the start operator's
\* execute() or start() on the instance - opens no socket, constructs no
\* instance, registers no modal operator and leaves the instance, its queue
\* and its dictionaries as they were; execute() reports a warning and
\* returns CANCELLED.  Over all starts, stops and unregisters the process
\* holds at most one listening socket, and holds it exactly while the
\* instance is running.
C19_StartWhileListeningRejected ==
    [][/\ (/\ ServerRunning
           /\ lastOp' # lastOp
           /\ lastOp'.op \in {"execute", "start"})
          => /\ sockets' = sockets
             /\ instancesCreated' = instancesCreated
             /\ modalHandlers' = modalHandlers
             /\ sharedVars' = sharedVars
             /\ server' = server
             /\ global_server' = global_server
             /\ ~lastOp'.constructed
             /\ (lastOp'.op = "execute" =>
                   lastOp'.result = "CANCELLED" /\ lastOp'.report = "WARNING")
             /\ (lastOp'.op = "start" => lastOp'.result = "returned")
       /\ sockets' <= 1
       /\ (running' <=> sockets' = 1)
      ]_vars

\* C19's case: the start operator was invoked while the server it had started
\* before was Listening, and was rejected.
C19_Witness ==
    /\ lastOp = OpRecord("execute", "CANCELLED", "WARNING", FALSE, Constructed)
    /\ ServerRunning
    /\ sockets = 1
    /\ instancesCreated = 1
    /\ modalHandlers = 1

\* C20: a start whose bind fails leaves everything Stopped.  The instance
\* start() was called on has running False and server None after the call;
\* execute() reports an error, returns CANCELLED and leaves the global
\* server, the modal operators and timers, the sockets and the previous
\* instance as they were; start() called directly raises.
C20_BindFailureLeavesStopped ==
    [][(/\ (lastOp' # lastOp \/ instancesCreated' # instancesCreated)
        /\ (lastOp'.report = "ERROR" \/ lastOp'.result = "raised"))
       => /\ lastOp'.instance = [running |-> FALSE, server |-> "None"]
          /\ ~ServerRunning
          /\ ~ServerRunning'
          /\ sockets' = sockets
          /\ modalHandlers' = modalHandlers
          /\ global_server' = global_server
          /\ sharedVars' = sharedVars
          /\ server' = server
          /\ (lastOp'.op = "execute" =>
                /\ lastOp'.result = "CANCELLED"
                /\ lastOp'.report = "ERROR")
      ]_vars

\* C20's case: the first start failed to bind; nothing is started.
C20_Witness ==
    /\ lastOp = OpRecord("execute", "CANCELLED", "ERROR", TRUE, Constructed)
    /\ instancesCreated = 1
    /\ global_server = "None"
    /\ ~running
    /\ server = "None"
    /\ sockets = 0
    /\ modalHandlers = 0

\* C30: response_events holds an entry only for a request whose do_POST has
\* not returned yet, whatever the path do_POST returned on.
C30_EventsOnlyWhileWaiting ==
    \A n \in DOMAIN response_events : ~Answered(n)

\* The keys of response_dict.
Outcomes == DOMAIN response_dict

\* C22: whenever the last lifecycle operation closed the listening socket,
\* the instance it shut down holds no queued envelope and no Outcome.
C22_ShutdownReleasesState ==
    (/\ lastOp.op \in {"stop", "unregister", "shutdown"}
     /\ ~running
     /\ server = "None"
     /\ instancesCreated > 0)
    => request_queue = <<>> /\ Outcomes = {}

\* Calls of process_queue (and of poll) one TIMER event causes: modal()
\* returns PASS_THROUGH, so the event reaches every modal operator that is
\* installed, and each of them polls and pumps the server get_server()
\* returns.
PumpsPerTimerEvent == IF ServerRunning THEN modalHandlers ELSE 0

\* C24: after any sequence of start and stop operator invocations, one TIMER
\* event causes at most one process_queue call on the running server.
C24_OnePumpPerTimerEvent == PumpsPerTimerEvent <= 1

\* C28: as wired, the request queue never holds more than one envelope, and
\* it is empty whenever modal() is not running (at the end of every tick).
C28_QueueAtMostOne ==
    /\ Len(request_queue) <= 1
    /\ tpc = "idle" => request_queue = <<>>

\* A tick has enqueued an envelope, its caller was answered with the
\* timeout, and process_queue is about to run.
C28_Witness ==
    /\ tpc = "pump"
    /\ Len(request_queue) = 1
    /\ took = "timeout"
    /\ running

\* The ids of the handler invocations, in order.
HandlerIds == [i \in 1..Len(handlerLog) |-> handlerLog[i].id]

\* A step invokes a handler: it is the dequeue step of process_queue, taken
\* by modal() after poll() returned, for the envelope at the head of the
\* queue, which it removes; do_POST, do_GET and the lifecycle operations are
\* not running and their variables do not change.
HandlerInvokedByDispatcher ==
    handlerLog' # handlerLog =>
       /\ tpc = "pump"
       /\ dpc = "idle"
       /\ lpc = "idle"
       /\ request_queue # <<>>
       /\ Head(request_queue).action \in HandlerRegistry
       /\ handlerLog' = Append(handlerLog,
                               [id |-> Head(request_queue).id,
                                raised |-> HandlerRaises(Head(request_queue).action)])
       /\ request_queue' = Tail(request_queue)
       /\ UNCHANGED <<listenerVars, lifeVars>>

\* C25: handlers are invoked only by process_queue, called by modal(), never
\* by do_POST, do_GET, poll, start or shutdown, and no envelope has its
\* handler invoked more than once; an envelope whose handler was invoked has
\* left the queue.
C25_HandlersOnlyInDispatcher ==
    /\ [][HandlerInvokedByDispatcher]_vars
    /\ [](NoDuplicates(HandlerIds))
    /\ [](\A i \in 1..Len(handlerLog) :
             /\ \E j \in 1..Len(dispatchLog) : dispatchLog[j] = handlerLog[i].id
             /\ \A j \in 1..Len(request_queue) :
                   request_queue[j].id # handlerLog[i].id)

\* Two envelopes had their handlers invoked, by two ticks.
C25_Witness ==
    /\ tpc = "idle"
    /\ Len(handlerLog) = 2
    /\ dispatchLog = <<1, 2>>
    /\ reqCount = 2

\* The envelope of request n, with action a, is on the queue.
Queued(n, a) == \E i \in 1..Len(request_queue) : request_queue[i] = Envelope(n, a)

\* process_queue has dequeued the envelope of request n and, when a is a
\* registered action, invoked its handler once.
Consumed(n, a) ==
    /\ \E i \in 1..Len(dispatchLog) : dispatchLog[i] = n
    /\ \A i \in 1..Len(request_queue) : request_queue[i].id # n
    /\ a \in HandlerRegistry =>
          Cardinality({i \in 1..Len(handlerLog) : handlerLog[i].id = n}) = 1

\* C29: while TIMER events keep being handled, every envelope that was
\* enqueued is dequeued by a later process_queue call and the handler of a
\* registered action is invoked, once, also when the request's caller has
\* been answered with the timeout; no handler is invoked twice.
C29_TimeoutDoesNotCancel ==
    /\ \A n \in 1..MaxRequests : \A a \in ActionValues :
          Queued(n, a) ~> Consumed(n, a)
    /\ [](\A n \in 1..MaxRequests :
             Cardinality({i \in 1..Len(handlerLog) : handlerLog[i].id = n}) <= 1)

\* The caller of request 1 was answered with the timeout and the handler of
\* its action ran after that.
C29_Witness ==
    /\ Returned
    /\ cur.n = 1
    /\ took = "timeout"
    /\ OneResponse(500, TimeoutResponse)
    /\ handlerLog = <<[id |-> 1, raised |-> FALSE]>>
    /\ request_queue = <<>>

\* What one step may do at each position of modal():
\*   between two ticks, modal() starts only when a modal operator is
\*     installed, and it goes to poll() only when the server is running;
\*     when the server is not running nothing polls or pumps, and a TIMER
\*     event only removes a modal operator;
\*   poll() makes one accept attempt: it takes at most one request and goes
\*     on to that request's handler or straight to process_queue();
\*   while the request is handled no other request is accepted and
\*     process_queue() does not run;
\*   in process_queue() nothing is accepted, at most one envelope leaves the
\*     queue, and modal() returns exactly when process_queue() does.
TickStep ==
    /\ (tpc = "idle" /\ tpc' # "idle") =>
          /\ ServerRunning
          /\ modalHandlers > 0
          /\ tpc' = "poll"
          /\ UNCHANGED <<listenerVars, dispatchVars, sharedVars>>
    /\ (tpc = "idle" /\ ~ServerRunning /\ ServerRunning' = ServerRunning) =>
          /\ tpc' = "idle"
          /\ UNCHANGED <<listenerVars, dispatchVars, request_queue,
                         response_dict>>
    /\ (tpc = "idle" /\ modalHandlers' < modalHandlers) =>
          /\ ~ServerRunning
          /\ modalHandlers' = modalHandlers - 1
          /\ tpc' = "idle"
          /\ UNCHANGED <<listenerVars, dispatchVars, sharedVars, lifeVars>>
    /\ tpc = "poll" =>
          /\ tpc' \in {"handling", "pump"}
          /\ reqCount' \in {reqCount, reqCount + 1}
          /\ tpc' = "handling" => reqCount' = reqCount + 1
          /\ UNCHANGED dispatchVars
    /\ tpc = "handling" =>
          /\ tpc' \in {"handling", "pump"}
          /\ reqCount' = reqCount
          /\ tpc' = "pump" => lpc = "idle"
          /\ UNCHANGED dispatchVars
    /\ tpc = "pump" =>
          /\ tpc' \in {"pump", "idle"}
          /\ tpc' = "idle" <=> dpc' = "idle"
          /\ Len(dispatchLog') <= Len(dispatchLog) + 1
          /\ dispatchLog' # dispatchLog => dpc = "idle"
          /\ UNCHANGED listenerVars
    /\ dispatchLog' # dispatchLog => tpc = "pump"
    /\ handlerLog' # handlerLog => tpc = "pump"
    /\ reqCount' # reqCount => tpc = "poll"

\* C23: a tick that finds the server running calls poll() once and then
\* process_queue() once; a tick that finds it not running calls neither,
\* invokes no handler and cancels the modal operator.  Between ticks
\* process_queue() is not running.
C23_TickPollsThenPumps ==
    /\ [][TickStep]_vars
    /\ [](tpc \in {"idle", "poll", "handling"} => dpc = "idle")
    /\ [](tpc \in {"idle", "poll", "pump"} => lpc = "idle")

\* A tick polled a request in and pumped it; later the server was stopped
\* and the next tick removed the modal operator.
C23_Witness ==
    /\ tpc = "idle"
    /\ reqCount = 1
    /\ dispatchLog = <<1>>
    /\ lastOp.op = "stop"
    /\ ~ServerRunning
    /\ modalHandlers = 0
    /\ ~escaped

\* The states of an instance.
InstanceStates == {Constructed, Listening}

\* A step is a call of shutdown(), or of start(), on the instance the global
\* refers to.
IsShutdownCall == lastOp' # lastOp /\ lastOp'.op = "shutdown"
IsStartCall == lastOp' # lastOp /\ lastOp'.op = "start"

\* shutdown() on a stopped instance changes nothing (but the record of the
\* call); on a listening one it closes the socket and leaves the instance
\* stopped.
ShutdownStep ==
    IsShutdownCall =>
       IF server = "None"
       THEN /\ lastOp'.result = "no-op"
            /\ UNCHANGED <<listenerVars, dispatchVars, sharedVars, modalVars,
                           server, global_server, sockets, instancesCreated>>
       ELSE /\ lastOp'.result = "closed"
            /\ ~running'
            /\ server' = "None"
            /\ sockets' = sockets - 1
            /\ sockets' = 0

\* start() on a stopped instance either binds and leaves the instance
\* listening, or raises because the port cannot be bound and leaves it
\* stopped; start() never returns with a stopped instance stopped.
StartAfterShutdownStep ==
    (IsStartCall /\ ~running /\ server = "None") =>
       \/ /\ lastOp'.result = "returned"
          /\ running'
          /\ server' = "bound"
          /\ sockets' = sockets + 1
       \/ /\ lastOp'.result = "raised"
          /\ UNCHANGED <<running, server, sockets>>

\* C21: shutdown() on a stopped instance, never started or shut down before,
\* raises nothing and changes nothing; two shutdown() calls leave what one
\* leaves; after a shutdown the instance holds no socket, and start() on it,
\* when the port can be bound, leaves it listening.
C21_ShutdownIdempotent ==
    /\ ServerShutdown(Constructed) = [instance |-> Constructed, closed |-> 0]
    /\ \A inst \in InstanceStates :
          /\ ServerShutdown(inst).instance = Constructed
          /\ ServerShutdown(ServerShutdown(inst).instance)
                = [instance |-> ServerShutdown(inst).instance, closed |-> 0]
          /\ ServerStart(ServerShutdown(inst).instance, TRUE).instance = Listening
          /\ ~ServerStart(ServerShutdown(inst).instance, TRUE).raised
    /\ [][ShutdownStep]_vars
    /\ [][StartAfterShutdownStep]_vars
    /\ [](~running => server = "None" /\ sockets = 0)

\* The instance the first start made was shut down, a tick found it stopped
\* and removed the modal operator, and start() on the same instance returned
\* with the socket bound again.
C21_Witness ==
    /\ lastOp.op = "start"
    /\ lastOp.result = "returned"
    /\ running
    /\ server = "bound"
    /\ sockets = 1
    /\ instancesCreated = 1
    /\ modalHandlers = 0
    /\ ~escaped

\* C27: _get_abbreviation(name, used) returns, what it returns is not a key
\* of used, and the call does not change used.
C27_AbbreviationFresh ==
    /\ <>(abbr_pc = "done")
    /\ [](abbr_pc = "done" => returned # <<>> /\ returned \notin used)
    /\ [][used' = used]_vars

\* The call went through the for loop, found every candidate used, found
\* the first numbered abbreviation used too and returned the second.
C27_Witness ==
    /\ abbr_pc = "done"
    /\ Len(Clean(name)) = 2
    /\ name # Clean(name)
    /\ index = 2
    /\ count = 2
    /\ returned = <<"A", "2">>
    /\ <<"A", "1">> \in used

\* C26: do_POST never registers a PendingCall under an id that is
\* outstanding, and the id it registers is the one the server made, also
\* when the client sent a `_request_id`.
C26_IdsUniqueWhileOutstanding ==
    /\ reused = {}
    /\ ids_pc \in {"wait", "check"} =>
          /\ request_id \in event_ids
          /\ request_id[1] \in heap
          /\ queue_ids = <<request_id>>

====
